---- MODULE Spec2Model ----
(***************************************************************************)
(* Workspace registry and request scoping of lightrag/api/workspaces.py.   *)
(*                                                                         *)
(* State: the WorkspaceContext objects (their mutable fields), the         *)
(* registry dict (in insertion order), the ContextVar                      *)
(* _current_workspace as one slot per execution context, the suspended     *)
(* _apply generators of every execution context, and the position of a     *)
(* running shutdown_all() call.                                            *)
(***************************************************************************)
EXTENDS Integers, Sequences, FiniteSets, TLC

\* ---------------------------------------------------------------- bounds
NCtx == 3          \* WorkspaceContext objects that exist in the process
NReq == 2          \* concurrent execution contexts (requests)
MaxScopes == 3     \* _apply scopes open at the same time, nested or not
MaxEvents == 2     \* field writes by the code that owns the contexts
MaxSweeps == 2     \* shutdown_all() calls in the life of the registry
MaxLen == 5        \* characters of the WORKSPACES value

Ctxs == 1..NCtx
Reqs == 1..NReq

\* Optional[...] values: None, and the object reference that stands for it
None == <<>>
Some(s) == <<s>>
NoCtx == 0

\* workspace ids; "c" is never the id of a context, so it is always unknown
WsIds == <<"a", "b">>
UnknownId == "c"
RequestIds == {WsIds[i] : i \in 1..Len(WsIds)} \cup {UnknownId}

\* error texts a context can carry; str(exc) of a message-less exception is ""
ErrorTexts == {"", "boom"}

\* WorkspaceContext.id: config.id of object c (several objects share an id)
CtxId(c) == WsIds[((c - 1) % Len(WsIds)) + 1]

VARIABLES
    obj,                \* obj[c]: the mutable fields of WorkspaceContext c
    contexts,           \* WorkspaceRegistry._contexts, items in dict order
    current_workspace,  \* _current_workspace, one value per execution context
    scopes,             \* per execution context: _apply generators at yield
    last,               \* the call of the request API made by the step just
                        \* taken and its result, NoCall after any other step
    events,             \* number of field writes so far
    sweep,              \* the shutdown_all() call in progress, and its log
    life,               \* over the life of the registry: shutdown_all() calls
                        \* started, finalize_storages() calls per context
    parse               \* a load_workspace_configs(args) call at startup:
                        \* its inputs and its result

vars == <<obj, contexts, current_workspace, scopes, last, events, sweep, life,
          parse>>

\* ------------------------------------------------------------- registry

\* position of key w in the dict, 0 when absent
KeyIndex(d, w) ==
    IF \E i \in 1..Len(d) : d[i].id = w
    THEN CHOOSE i \in 1..Len(d) : d[i].id = w
    ELSE 0

register_Append(d, c) == Append(d, [id |-> CtxId(c), ctx |-> c])

\* WorkspaceRegistry.register: self._contexts[ctx.id] = ctx
register(d, c) ==
    LET i == KeyIndex(d, CtxId(c)) IN
    IF i = 0 THEN Append(d, [id |-> CtxId(c), ctx |-> c])
    ELSE [d EXCEPT ![i] = [id |-> CtxId(c), ctx |-> c]]

\* WorkspaceRegistry.get: self._contexts.get(workspace_id)
get(d, w) ==
    LET i == KeyIndex(d, w) IN IF i = 0 THEN NoCtx ELSE d[i].ctx

\* WorkspaceRegistry.list: list(self._contexts.values())
list(d) == [i \in 1..Len(d) |-> d[i].ctx]

\* ----------------------------------------------------------- ContextVar

\* ContextVar.set in execution context r: returns the new variable state;
\* the token it hands back holds the value the context had before
ContextVarSet_Shared(cv, r, v) == [q \in DOMAIN cv |-> v]

ContextVarSet(cv, r, v) == [cv EXCEPT ![r] = v]

ContextVarToken_Clear(cv, r) == NoCtx

ContextVarToken(cv, r) == cv[r]

\* ContextVar.reset(token) in execution context r
ContextVarReset(cv, r, token) == [cv EXCEPT ![r] = token]

\* ContextVar.get(None): an unset variable reads as the default None
ContextVarGet(cv, r) == cv[r]

\* ---------------------------------------------------- request scoping

\* truthiness of Optional[str]: None and "" are both falsy
Truthy(e) == e # None /\ e # Some("")

\* `not ctx.config.enabled or ctx.error`
Rejected(o) == (~o.enabled) \/ Truthy(o.error)

\* ctx.as_dict(): the serialized summary of context c with fields o
as_dict(c, o) ==
    [id |-> CtxId(c), display_name |-> CtxId(c), description |-> None,
     enabled |-> (o.enabled /\ o.error = None),
     error |-> o.error, metadata |-> <<>>]

NotFoundDetail(w) == "Workspace '" \o w \o "' not found"
DisabledDetail(w) == "Workspace '" \o w \o "' is disabled"

\* `ctx.error or f"Workspace '{workspace_id}' is disabled"`
RejectedDetail(o, w) == IF Truthy(o.error) THEN o.error[1] ELSE DisabledDetail(w)

\* the part of _apply that runs before the yield, as a result record
ApplyResult(d, o, w) ==
    LET c == get(d, w) IN
    IF c = NoCtx THEN [status |-> "404", detail |-> NotFoundDetail(w), ctx |-> NoCtx]
    ELSE IF Rejected(o[c])
         THEN [status |-> "404", detail |-> RejectedDetail(o[c], w), ctx |-> NoCtx]
         ELSE [status |-> "yield", detail |-> "", ctx |-> c]

get_current_workspace_NoCheck(cv, r) ==
    [status |-> "return", ctx |-> ContextVarGet(cv, r)]

get_current_workspace_Live(cv, r) ==
    LET c == ContextVarGet(cv, r) IN
    IF c = NoCtx \/ Rejected(obj[c]) THEN [status |-> "RuntimeError", ctx |-> NoCtx]
    ELSE [status |-> "return", ctx |-> get(contexts, CtxId(c))]

\* get_current_workspace()
get_current_workspace(cv, r) ==
    LET c == ContextVarGet(cv, r) IN
    IF c = NoCtx THEN [status |-> "RuntimeError", ctx |-> NoCtx]
    ELSE [status |-> "return", ctx |-> c]

Release_NoFinally(how, cv, r, token) ==
    IF how = "ok" THEN ContextVarReset(cv, r, token) ELSE cv

\* the finally block of _apply; `how` is the way the generator is resumed
\* (asend after success, athrow after a fault, aclose on cancellation)
Release(how, cv, r, token) == ContextVarReset(cv, r, token)

OpenScopes == LET RECURSIVE Sum(_)
                  Sum(n) == IF n = 0 THEN 0 ELSE Len(scopes[n]) + Sum(n - 1)
              IN Sum(NReq)

NoCall == [op |-> "none", r |-> 0, w |-> "", status |-> "", detail |-> "",
           ctx |-> NoCtx, before |-> NoCtx]

\* a request enters the dependency: _apply(workspace_id) runs to its yield
\* or raises HTTPException
Apply(r, w) ==
    /\ OpenScopes < MaxScopes
    /\ LET res == ApplyResult(contexts, obj, w) IN
       /\ last' = [op |-> "bind", r |-> r, w |-> w, status |-> res.status,
                   detail |-> res.detail, ctx |-> res.ctx,
                   before |-> current_workspace[r]]
       /\ IF res.status = "yield"
          THEN /\ current_workspace' = ContextVarSet(current_workspace, r, res.ctx)
               /\ scopes' = [scopes EXCEPT ![r] =
                      Append(@, [ctx |-> res.ctx,
                                 token |-> ContextVarToken(current_workspace, r),
                                 before |-> current_workspace[r]])]
          ELSE UNCHANGED <<current_workspace, scopes>>
    /\ UNCHANGED <<obj, contexts, events, sweep, life, parse>>

\* the innermost scope of request r ends: its generator is resumed, thrown
\* into or closed, and the finally block runs.  The scopes of one execution
\* context are generators suspended at the yield; they end innermost first.
Exit(r, how) ==
    /\ scopes[r] # <<>>
    /\ LET top == scopes[r][Len(scopes[r])] IN
       /\ current_workspace' = Release(how, current_workspace, r, top.token)
       /\ last' = [op |-> "exit", r |-> r, w |-> CtxId(top.ctx), status |-> how,
                   detail |-> "", ctx |-> top.ctx, before |-> top.before]
    /\ scopes' = [scopes EXCEPT ![r] = SubSeq(@, 1, Len(@) - 1)]
    /\ UNCHANGED <<obj, contexts, events, sweep, life, parse>>

\* a handler (or any code) of request r calls get_current_workspace()
Get(r) ==
    /\ LET res == get_current_workspace(current_workspace, r) IN
       last' = [op |-> "get", r |-> r, w |-> "", status |-> res.status,
                detail |-> "", ctx |-> res.ctx, before |-> current_workspace[r]]
    /\ UNCHANGED <<obj, contexts, current_workspace, scopes, events, sweep, life, parse>>

\* ------------------------------------------------- owner of the contexts
\* The contexts are built, registered and updated by the server code that
\* owns the registry; WorkspaceContext and WorkspaceConfig are plain mutable
\* dataclasses, so that code can write their fields at any time.

\* shutdown_all() is a coroutine: between two awaits it runs without
\* interruption, so other code of the event loop runs only before the call,
\* after it, and while it is suspended in `await ... finalize_storages()`
Running == sweep.pc = "loop"

\* registry.register(ctx); life.registered remembers, per id, the context of
\* the most recent register() call
Register(c) ==
    /\ ~Running
    /\ contexts' = register(contexts, c)
    /\ contexts' # contexts
    /\ last' = NoCall
    /\ life' = [life EXCEPT !.registered[CtxId(c)] = c]
    /\ UNCHANGED <<obj, current_workspace, scopes, events, sweep, parse>>

\* ctx.error = text
SetError(c, e) ==
    /\ ~Running
    /\ events < MaxEvents
    /\ obj[c].error # Some(e)
    /\ obj' = [obj EXCEPT ![c].error = Some(e)]
    /\ events' = events + 1
    /\ last' = NoCall
    /\ UNCHANGED <<contexts, current_workspace, scopes, sweep, life, parse>>

\* ctx.config.enabled = False
Disable(c) ==
    /\ ~Running
    /\ events < MaxEvents
    /\ obj[c].enabled
    /\ obj' = [obj EXCEPT ![c].enabled = FALSE]
    /\ events' = events + 1
    /\ last' = NoCall
    /\ UNCHANGED <<contexts, current_workspace, scopes, sweep, life, parse>>

\* ctx.initialized = True
MarkInitialized(c) ==
    /\ ~Running
    /\ events < MaxEvents
    /\ ~obj[c].initialized
    /\ obj' = [obj EXCEPT ![c].initialized = TRUE]
    /\ events' = events + 1
    /\ last' = NoCall
    /\ UNCHANGED <<contexts, current_workspace, scopes, sweep, life, parse>>

\* --------------------------------------------------------- shutdown_all

\* sweep.pc: "idle" before the first call, "loop" at the head of the for
\* loop, "await" inside `await ctx.rag.finalize_storages()`, "returned" and
\* "raised" after the call ended.  sweep.snapshot is self.list() and
\* sweep.idx the position of the loop in it.  The rest is a log of the call:
\* log[i] is what happened to snapshot[i], flag[i] the value of
\* ctx.initialized the loop found there, calls[c] the finalize_storages()
\* calls made on context c, atStart the dict as it was when the call
\* started, stale the contexts that an earlier register() had replaced then,
\* replaced[i] whether snapshot[i] had been replaced in the dict when the
\* loop reached it.
NoSweep == [pc |-> "idle", snapshot |-> <<>>, idx |-> 0, log |-> <<>>,
            flag |-> <<>>, calls |-> [c \in Ctxs |-> 0],
            atStart |-> <<>>, stale |-> {}, replaced |-> <<>>]

\* context c is not the one most recently registered under its id
Superseded(c) == life.registered[CtxId(c)] \notin {NoCtx, c}

SweepItem_Live(i) ==
    IF i <= Len(contexts) THEN contexts[i].ctx ELSE sweep.snapshot[i]

\* the i-th item of the iteration: `for ctx in self.list()` iterates the
\* list that list() built when the call started
SweepItem(i) == sweep.snapshot[i]

\* how an awaited finalize_storages() can end: it returns, it raises an
\* Exception, or it raises a BaseException that is no Exception
\* (asyncio.CancelledError, KeyboardInterrupt, SystemExit)
Outcomes == {"ok", "Exception", "BaseException"}

ShouldFinalize_Always(o) == TRUE

\* `if ctx.initialized:`
ShouldFinalize(o) == o.initialized

Caught_Nothing(outcome) == FALSE

\* `except Exception as exc:` catches
Caught(outcome) == outcome = "Exception"

\* where the call stands after the awaited finalize ended
AfterFinalize(outcome) ==
    IF outcome = "ok" \/ Caught(outcome) THEN "loop" ELSE "raised"

Finalized_Reset(o, outcome) == [o EXCEPT !.initialized = FALSE]

\* the context after its finalize_storages() ended: the loop body assigns
\* none of its fields, neither after the await nor in the except clause
Finalized(o, outcome) == o

NextIndex_Break(idx, outcome) ==
    IF outcome = "Exception" THEN Len(sweep.snapshot) + 1 ELSE idx + 1

NextIndex_Retry(idx, outcome) ==
    IF outcome = "Exception" THEN idx ELSE idx + 1

\* the for loop moves on to the next context of the snapshot
NextIndex(idx, outcome) == idx + 1

\* shutdown_all() is called: `for ctx in self.list()` takes the snapshot
ShutdownStart ==
    /\ sweep.pc \in {"idle", "returned", "raised"}
    /\ life.sweeps < MaxSweeps
    /\ LET snap == list(contexts) IN
       sweep' = [pc |-> "loop", snapshot |-> snap, idx |-> 1,
                 log |-> [i \in 1..Len(snap) |-> "pending"],
                 flag |-> [i \in 1..Len(snap) |-> FALSE],
                 calls |-> [c \in Ctxs |-> 0],
                 atStart |-> contexts,
                 stale |-> {c \in Ctxs : Superseded(c)},
                 replaced |-> [i \in 1..Len(snap) |-> FALSE]]
    /\ life' = [life EXCEPT !.sweeps = @ + 1]
    /\ UNCHANGED <<obj, contexts, current_workspace, scopes, last, events, parse>>

\* one iteration of the loop up to the await, or past a context that is
\* not initialized
Visit ==
    /\ sweep.pc = "loop"
    /\ sweep.idx <= Len(sweep.snapshot)
    /\ LET i == sweep.idx
           c == SweepItem(i)
       IN IF ShouldFinalize(obj[c])
          THEN /\ sweep' = [sweep EXCEPT !.pc = "await", !.log[i] = "called",
                                         !.flag[i] = obj[c].initialized,
                                         !.replaced[i] = Superseded(c),
                                         !.calls[c] = @ + 1]
               /\ life' = [life EXCEPT !.total[c] = @ + 1]
          ELSE /\ sweep' = [sweep EXCEPT !.log[i] = "skipped",
                                         !.flag[i] = obj[c].initialized,
                                         !.replaced[i] = Superseded(c),
                                         !.idx = NextIndex(i, "skipped")]
               /\ UNCHANGED life
    /\ UNCHANGED <<obj, contexts, current_workspace, scopes, last, events, parse>>

\* the awaited finalize_storages() ends
FinalizeEnds(outcome) ==
    /\ sweep.pc = "await"
    /\ LET i == sweep.idx IN
       sweep' = [sweep EXCEPT !.log[i] = outcome,
                              !.pc = AfterFinalize(outcome),
                              !.idx = IF AfterFinalize(outcome) = "loop"
                                      THEN NextIndex(i, outcome) ELSE i]
    /\ obj' = [obj EXCEPT ![SweepItem(sweep.idx)] = Finalized(@, outcome)]
    /\ UNCHANGED <<contexts, current_workspace, scopes, last, events, life, parse>>

\* the loop is exhausted: shutdown_all() returns None
Return ==
    /\ sweep.pc = "loop"
    /\ sweep.idx > Len(sweep.snapshot)
    /\ sweep' = [sweep EXCEPT !.pc = "returned"]
    /\ UNCHANGED <<obj, contexts, current_workspace, scopes, last, events, life, parse>>

\* ------------------------------------------------ load_workspace_configs

\* a str is the sequence of its characters
Alphabet == {"a", "b", " ", ","}
Str(n) == UNION {[1..m -> Alphabet] : m \in 0..n}

\* the literal "default"
Default == <<"d", "e", "f", "a", "u", "l", "t">>

\* str.strip() removes the whitespace at both ends
IsSpace(ch) == ch = " "

RECURSIVE LStrip(_)
LStrip(s) == IF s # <<>> /\ IsSpace(Head(s)) THEN LStrip(Tail(s)) ELSE s

RECURSIVE RStrip(_)
RStrip(s) ==
    IF s # <<>> /\ IsSpace(s[Len(s)]) THEN RStrip(SubSeq(s, 1, Len(s) - 1)) ELSE s

Strip(s) == RStrip(LStrip(s))

\* raw_ids.split(","): the pieces between the commas, empty ones included
RECURSIVE SplitFrom(_, _)
SplitFrom(rest, piece) ==
    IF rest = <<>> THEN <<piece>>
    ELSE IF Head(rest) = "," THEN <<piece>> \o SplitFrom(Tail(rest), <<>>)
    ELSE SplitFrom(Tail(rest), Append(piece, Head(rest)))

Split(s) == SplitFrom(s, <<>>)

\* truthiness of Optional[str]
NonEmpty(v) == v # None /\ v[1] # <<>>

\* _parse_workspace_ids: the stripped pieces that are not empty, in order
RECURSIVE KeepIds(_)
KeepIds(pieces) ==
    IF pieces = <<>> THEN <<>>
    ELSE LET workspace_id == Strip(Head(pieces)) IN
         IF workspace_id # <<>> THEN <<workspace_id>> \o KeepIds(Tail(pieces))
         ELSE KeepIds(Tail(pieces))

parse_workspace_ids(raw_ids) == KeepIds(Split(raw_ids))

\* WorkspaceConfig(id=workspace_id): every other field at its default
WorkspaceConfig(id) ==
    [id |-> id, display_name |-> None, description |-> None, enabled |-> TRUE,
     metadata |-> <<>>]

Configs(ids) == [i \in 1..Len(ids) |-> WorkspaceConfig(ids[i])]

FallbackId_EnvFirst(arg, env) ==
    LET fallback == IF NonEmpty(env) THEN env[1]
                    ELSE IF arg # None THEN arg[1] ELSE <<>>
        workspace_id == Strip(fallback)
    IN IF workspace_id # <<>> THEN workspace_id ELSE Default

FallbackId_NoDefault(arg, env) ==
    Strip(IF NonEmpty(arg) THEN arg[1] ELSE IF env # None THEN env[1] ELSE <<>>)

\* `args.workspace or os.getenv("WORKSPACE", "")`, stripped, or "default"
FallbackId(arg, env) ==
    LET fallback == IF NonEmpty(arg) THEN arg[1]
                    ELSE IF env # None THEN env[1] ELSE <<>>
        workspace_id == Strip(fallback)
    IN IF workspace_id # <<>> THEN workspace_id ELSE Default

UniqueFrom_NoCheck(configs, seen) == configs

\* the loop "Ensure unique ids": a config whose id was seen is dropped
RECURSIVE UniqueFrom(_, _)
UniqueFrom(configs, seen) ==
    IF configs = <<>> THEN <<>>
    ELSE LET cfg == Head(configs) IN
         IF cfg.id \in seen THEN UniqueFrom(Tail(configs), seen)
         ELSE <<cfg>> \o UniqueFrom(Tail(configs), seen \cup {cfg.id})

\* the configs after `if env_value:`
FromAggregate(env_value) ==
    IF NonEmpty(env_value) THEN Configs(parse_workspace_ids(env_value[1])) ELSE <<>>

WithFallback_Merge(configs, arg, env) ==
    configs \o <<WorkspaceConfig(FallbackId(arg, env))>>

\* the configs after `if not configs:`
WithFallback(configs, arg, env) ==
    IF configs = <<>> THEN <<WorkspaceConfig(FallbackId(arg, env))>> ELSE configs

\* load_workspace_configs(args) with os.environ holding WORKSPACES = ws and
\* WORKSPACE = env (None: not set) and args.workspace = arg
load_workspace_configs(ws, arg, env) ==
    UniqueFrom(WithFallback(FromAggregate(ws), arg, env), {})

NoParse == [pc |-> "none", WORKSPACES |-> None, arg |-> None, WORKSPACE |-> None,
            result |-> <<>>]

\* the call of load_workspace_configs
Load ==
    /\ parse.pc = "call"
    /\ parse' = [parse EXCEPT
                    !.pc = "returned",
                    !.result = load_workspace_configs(parse.WORKSPACES, parse.arg,
                                                      parse.WORKSPACE)]
    /\ UNCHANGED <<obj, contexts, current_workspace, scopes, last, events, sweep, life>>

\* ------------------------------------------------------------------ init

InitRuntime ==
    /\ obj = [c \in Ctxs |-> [enabled |-> TRUE, error |-> None, initialized |-> FALSE]]
    /\ contexts = <<>>
    /\ current_workspace = [r \in Reqs |-> NoCtx]
    /\ scopes = [r \in Reqs |-> <<>>]
    /\ last = NoCall
    /\ events = 0
    /\ sweep = NoSweep
    /\ life = [sweeps |-> 0, total |-> [c \in Ctxs |-> 0],
               registered |-> [w \in RequestIds |-> NoCtx]]

Init == InitRuntime /\ parse = NoParse

\* the aggregate values: every string up to MaxLen, and the example
\* "a, b,,a , c"
Example == <<"a", ",", " ", "b", ",", ",", "a", " ", ",", " ", "c">>
AggregateInputs == {None} \cup {Some(s) : s \in Str(MaxLen)} \cup {Some(Example)}

\* the values of args.workspace and of WORKSPACE: absent, empty, blank,
\* plain, padded
FallbackInputs == {None, Some(<<>>), Some(<<" ">>), Some(<<"a">>),
                   Some(<<" ", "b", " ">>)}

InitParse ==
    /\ InitRuntime
    /\ parse \in [pc : {"call"}, WORKSPACES : AggregateInputs, arg : FallbackInputs,
                  WORKSPACE : FallbackInputs, result : {<<>>}]

ExitPaths == {"ok", "raise", "cancel"}

\* requests on a registry whose contexts stay as constructed
NextScope ==
    \/ \E r \in Reqs, w \in RequestIds : Apply(r, w)
    \/ \E r \in Reqs, how \in ExitPaths : Exit(r, how)
    \/ \E r \in Reqs : Get(r)
    \/ \E c \in Ctxs : Register(c)

SpecScope == Init /\ [][NextScope]_vars

\* requests on a registry whose contexts are disabled, fail and get
\* initialized while requests run
NextBind ==
    \/ \E r \in Reqs, w \in RequestIds : Apply(r, w)
    \/ \E r \in Reqs, how \in ExitPaths : Exit(r, how)
    \/ \E r \in Reqs : Get(r)
    \/ \E c \in Ctxs : Register(c)
    \/ \E c \in Ctxs, e \in ErrorTexts : SetError(c, e)
    \/ \E c \in Ctxs : Disable(c)
    \/ \E c \in Ctxs : MarkInitialized(c)

SpecBind == Init /\ [][NextBind]_vars

\* shutdown_all() calls, one after the other, on a registry that is still
\* registered into and whose contexts still complete or fail their setup
NextShutdown ==
    \/ ShutdownStart
    \/ Visit
    \/ \E outcome \in Outcomes : FinalizeEnds(outcome)
    \/ Return
    \/ \E c \in Ctxs : Register(c)
    \/ \E c \in Ctxs : MarkInitialized(c)
    \/ \E c \in Ctxs, e \in ErrorTexts : SetError(c, e)

SpecShutdown == Init /\ [][NextShutdown]_vars

\* one load_workspace_configs call on every input
NextParse == Load

SpecParse == InitParse /\ [][NextParse]_vars

\* ================================================================ claims

Bound(r) == scopes[r] # <<>>
Innermost(r) == scopes[r][Len(scopes[r])]

\* what request r must read, by its own scopes alone
ExpectedRead(r) ==
    IF Bound(r) THEN [status |-> "return", ctx |-> Innermost(r).ctx]
    ELSE [status |-> "RuntimeError", ctx |-> NoCtx]

Reads(r) == get_current_workspace(current_workspace, r)

\* C1: under any interleaving, a request inside its bound interval reads its
\* own context, the context its own innermost _apply bound; and after a bind
\* or a release by one request every other request still reads what its own
\* scopes say (nothing, if it has none).
C1_Isolation ==
    /\ \A r \in Reqs : Bound(r) => Reads(r) = ExpectedRead(r)
    /\ (last.op = "get" /\ Bound(last.r)) =>
            (last.status = "return" /\ last.ctx = Innermost(last.r).ctx)
    /\ last.op \in {"bind", "exit"} =>
            \A q \in Reqs \ {last.r} : Reads(q) = ExpectedRead(q)

\* two requests are bound to different workspace ids and one of them has
\* just read its own context
C1_Witness ==
    \E r \in Reqs, q \in Reqs :
        /\ r # q /\ Bound(r) /\ Bound(q)
        /\ CtxId(Innermost(r).ctx) # CtxId(Innermost(q).ctx)
        /\ last.op = "get" /\ last.r = r /\ last.ctx = Innermost(r).ctx

\* C2: whichever way a bound interval ends (success, fault, cancellation),
\* the slot of that execution context then holds the value it held right
\* before the bind.
C2_ReleaseRestores ==
    last.op = "exit" =>
        /\ last.status \in ExitPaths
        /\ current_workspace[last.r] = last.before

\* a nested scope was cancelled and the slot is back on the outer context
C2_Witness ==
    /\ last.op = "exit" /\ last.status = "cancel"
    /\ last.before # NoCtx /\ last.before # last.ctx
    /\ current_workspace[last.r] = last.before

\* C3: with a scope on B open inside a scope on A, the request reads B; once
\* the inner scope has ended, in any way, it reads A again, never nothing
\* and never B.
C3_Nesting ==
    /\ \A r \in Reqs : Len(scopes[r]) >= 2 =>
            Reads(r) = [status |-> "return", ctx |-> Innermost(r).ctx]
    /\ (last.op = "exit" /\ Bound(last.r)) =>
            Reads(last.r) = [status |-> "return", ctx |-> Innermost(last.r).ctx]

\* the inner scope on B ended by a fault and the outer scope on A is open
C3_Witness ==
    /\ last.op = "exit" /\ last.status = "raise" /\ Bound(last.r)
    /\ CtxId(last.ctx) # CtxId(Innermost(last.r).ctx)
    /\ Reads(last.r).ctx = Innermost(last.r).ctx

\* C6: get_current_workspace() in an execution context with no open scope
\* fails with RuntimeError and returns no context; inside an open scope it
\* returns the context that scope bound; the slot is as it was before the
\* call.
C6_Accessor ==
    last.op = "get" =>
        /\ ~Bound(last.r) => (last.status = "RuntimeError" /\ last.ctx = NoCtx)
        /\ Bound(last.r) => (last.status = "return" /\ last.ctx = Innermost(last.r).ctx)
        /\ current_workspace[last.r] = last.before

\* a request without scope got RuntimeError while another request is bound
C6_Witness ==
    /\ last.op = "get" /\ last.status = "RuntimeError"
    /\ \E q \in Reqs \ {last.r} : Bound(q)

\* the context registered under the id of the bind that `last` reports
Resolved == get(contexts, last.w)

\* an error is set when it is not None: as_dict reports `self.error is None`
ErrorSet(o) == o.error # None

\* C4: a bind to id w fails with 404 and leaves the slot as it was whenever w
\* is not registered, or the registered context is disabled, or its error is
\* set; in every other case the resolved context is installed in the slot.
C4_BindValidation ==
    last.op = "bind" =>
        IF Resolved = NoCtx \/ ~obj[Resolved].enabled \/ ErrorSet(obj[Resolved])
        THEN last.status = "404" /\ current_workspace[last.r] = last.before
        ELSE last.status = "yield" /\ current_workspace[last.r] = Resolved

\* C5: a failed bind carries the error text of the context verbatim whenever
\* its error is set, the generic disabled message exactly when the error is
\* unset, and the not-found message for an unknown id.
C5_BindDetail ==
    (last.op = "bind" /\ last.status = "404") =>
        IF Resolved = NoCtx THEN last.detail = NotFoundDetail(last.w)
        ELSE /\ ErrorSet(obj[Resolved]) => last.detail = obj[Resolved].error[1]
             /\ last.detail = DisabledDetail(last.w) <=> ~ErrorSet(obj[Resolved])

\* C18: a bind to a registered context succeeds if and only if the summary
\* of that context reports it enabled, whatever the state of the context,
\* an error set to the empty string included.
C18_BindIffSummaryEnabled ==
    (last.op = "bind" /\ Resolved # NoCtx) =>
        (last.status = "yield" <=> as_dict(Resolved, obj[Resolved]).enabled)

\* C19: a request that is bound keeps reading the context its innermost
\* scope bound, also after that context was disabled, got an error or was
\* replaced in the registry; a bind made after the change goes by the
\* current state: it gets the context now registered under the id, and 404
\* if that context is disabled or carries an error text.
C19_ValidatedAtBindOnly ==
    /\ \A r \in Reqs :
          (Bound(r) /\ (Rejected(obj[Innermost(r).ctx]) \/ Superseded(Innermost(r).ctx))) =>
              Reads(r) = [status |-> "return", ctx |-> Innermost(r).ctx]
    /\ (last.op = "get" /\ Bound(last.r)) =>
          (last.status = "return" /\ last.ctx = Innermost(last.r).ctx)
    /\ (last.op = "bind" /\ Resolved # NoCtx) =>
          /\ Resolved = life.registered[last.w]
          /\ (~obj[Resolved].enabled \/ Truthy(obj[Resolved].error)) =>
                last.status = "404"
          /\ last.status = "yield" => last.ctx = Resolved

\* a request is bound to a context that was then disabled and replaced under
\* its id; it still reads that context, while the bind another request just
\* made to the same id got the replacement
C19_Witness ==
    \E r \in Reqs :
        /\ Bound(r)
        /\ LET c == Innermost(r).ctx IN
           /\ ~obj[c].enabled /\ Superseded(c)
           /\ Reads(r) = [status |-> "return", ctx |-> c]
           /\ last.op = "bind" /\ last.r # r /\ last.w = CtxId(c)
           /\ last.status = "yield" /\ last.ctx = life.registered[CtxId(c)]
           /\ last.ctx # c

Ended == sweep.pc \in {"returned", "raised"}
Positions == 1..Len(sweep.snapshot)
NoBaseException == \A i \in Positions : sweep.log[i] # "BaseException"
Invoked == {"called", "ok", "Exception", "BaseException"}

\* C7: in a sweep that no BaseException ended, a finalize that raised does
\* not keep the sweep from any other context: every other context of the
\* sweep was reached, and each that was initialized when reached had its
\* finalize invoked exactly once.
C7_FailureIsolation ==
    (Ended /\ NoBaseException) =>
        \A i \in Positions, j \in Positions :
            (i # j /\ sweep.log[i] = "Exception") =>
                /\ sweep.log[j] \in {"ok", "Exception", "skipped"}
                /\ sweep.flag[j] => sweep.calls[sweep.snapshot[j]] = 1

\* the first finalize of a sweep raised and a later one was still invoked
C7_Witness ==
    /\ sweep.pc = "returned"
    /\ \E i \in Positions, j \in Positions :
          /\ i < j /\ sweep.log[i] = "Exception" /\ sweep.log[j] = "ok"
          /\ sweep.calls[sweep.snapshot[j]] = 1

\* C8 as claimed: shutdown_all() never ends by raising, whatever a finalize
\* call ends with, and has visited every context when it ends.
C8_NeverRaises ==
    /\ sweep.pc # "raised"
    /\ Ended => \A i \in Positions : sweep.log[i] # "pending"

\* C8 amended: whatever Exception any finalize call raises, shutdown_all()
\* returns normally after having visited every context of its snapshot; it
\* ends by raising only when a finalize call ends with a BaseException that
\* is no Exception (a cancellation), and then the rest is not visited.
C8_ReturnsUnlessBaseException ==
    /\ (Ended /\ NoBaseException) =>
            /\ sweep.pc = "returned"
            /\ sweep.idx = Len(sweep.snapshot) + 1
            /\ \A i \in Positions : sweep.log[i] \in {"ok", "Exception", "skipped"}
    /\ sweep.pc = "raised" => sweep.log[sweep.idx] = "BaseException"

\* every finalize of a sweep over two or more contexts raised, and the call
\* returned
C8_Witness ==
    /\ sweep.pc = "returned" /\ Len(sweep.snapshot) >= 2
    /\ \A i \in Positions : sweep.log[i] = "Exception"

\* C9: within one shutdown_all() call, finalize is invoked exactly once for
\* a context whose initialized flag is true when the loop reaches it, and
\* not at all for one whose flag is false then, nor for a context outside
\* the snapshot.
C9_OncePerInitialized ==
    /\ \A c \in Ctxs : sweep.calls[c] <= 1
    /\ \A c \in Ctxs : (\A i \in Positions : sweep.snapshot[i] # c) => sweep.calls[c] = 0
    /\ \A i \in Positions :
          /\ sweep.log[i] = "skipped" => (~sweep.flag[i] /\ sweep.calls[sweep.snapshot[i]] = 0)
          /\ sweep.log[i] \in Invoked => (sweep.flag[i] /\ sweep.calls[sweep.snapshot[i]] = 1)
          /\ sweep.log[i] = "pending" => sweep.calls[sweep.snapshot[i]] = 0
    /\ sweep.pc = "returned" =>
          \A i \in Positions :
              sweep.calls[sweep.snapshot[i]] = IF sweep.flag[i] THEN 1 ELSE 0

\* a sweep returned after skipping one context and finalizing another
C9_Witness ==
    /\ sweep.pc = "returned"
    /\ \E i \in Positions, j \in Positions :
          /\ sweep.log[i] = "skipped" /\ sweep.calls[sweep.snapshot[i]] = 0
          /\ sweep.log[j] = "ok" /\ sweep.calls[sweep.snapshot[j]] = 1

\* C10 as claimed: over the life of the registry, shutdown_all() called more
\* than once included, no context has its finalize invoked a second time.
C10_OnceForLife == \A c \in Ctxs : life.total[c] <= 1

\* C10 amended: each shutdown_all() call invokes the finalize of a context
\* at most once, so over the life of the registry a context is finalized at
\* most once per shutdown_all() call made; a repeated call finalizes a
\* context that is still registered and initialized again.
C10_OncePerCall ==
    \A c \in Ctxs :
        /\ life.total[c] <= life.sweeps
        /\ sweep.calls[c] <= life.total[c]
        /\ (life.sweeps <= 1) => life.total[c] = sweep.calls[c]

\* the second shutdown_all() call finalized a context a second time
C10_Witness ==
    /\ life.sweeps = 2 /\ sweep.pc = "returned"
    /\ \E c \in Ctxs : life.total[c] = 2 /\ sweep.calls[c] = 1

\* ids that hold an entry of the dict
Keys == {contexts[i].id : i \in 1..Len(contexts)}

\* C11: after any sequence of register() calls the dict holds one entry per
\* distinct registered id, every entry sits under the id of its context,
\* and get(id) is the context of the most recent register() under that id,
\* absent for an id that was never registered.
C11_LastWriteWins ==
    /\ \A i \in 1..Len(contexts), j \in 1..Len(contexts) :
            contexts[i].id = contexts[j].id => i = j
    /\ \A i \in 1..Len(contexts) : contexts[i].id = CtxId(contexts[i].ctx)
    /\ Keys = {w \in RequestIds : life.registered[w] # NoCtx}
    /\ \A w \in RequestIds : get(contexts, w) = life.registered[w]

\* a context that a request still holds was replaced under its id, and the
\* lookup of that id gives the replacement, the only entry of the id
C11_Witness ==
    \E r \in Reqs :
        /\ Bound(r)
        /\ LET c == scopes[r][1].ctx IN
           /\ Superseded(c)
           /\ get(contexts, CtxId(c)) = life.registered[CtxId(c)]
           /\ Cardinality({i \in 1..Len(contexts) : contexts[i].id = CtxId(c)}) = 1
           /\ get(contexts, UnknownId) = NoCtx

\* C16 as claimed: the finalize of a context is never invoked once a later
\* register() under the same id has replaced it.
C16_NeverFinalizesReplaced ==
    [][\A c \in Ctxs : Superseded(c) => life.total'[c] = life.total[c]]_vars

\* C16 amended: register() invokes no finalize, and a shutdown_all() call
\* invokes no finalize of a context that was already replaced when the call
\* started; a call that is under way when the context is replaced sweeps
\* the snapshot it took and can still finalize it.
C16_NotBySweepStartedLater ==
    [][/\ contexts' # contexts => (life.total' = life.total /\ sweep' = sweep)
       /\ \A c \in sweep'.stale : sweep'.calls[c] = 0]_vars

\* a shutdown_all() call returned that started after an initialized context
\* had been replaced: it finalized the replacement and not the old context
C16_Witness ==
    /\ sweep.pc = "returned"
    /\ \E c \in sweep.stale :
          /\ obj[c].initialized /\ sweep.calls[c] = 0 /\ life.total[c] = 0
          /\ sweep.calls[life.registered[CtxId(c)]] = 1

\* C17: no step of shutdown_all(), from its start to its return or raise,
\* changes the registry: the ids, the context under each id, what get(id)
\* returns, and every context's fields stay as they are, whether the
\* finalize calls succeed or fail.
C17_RegistryUnchanged ==
    [][sweep' # sweep =>
          /\ contexts' = contexts
          /\ obj' = obj
          /\ \A w \in RequestIds : get(contexts', w) = get(contexts, w)]_vars

\* a call returned after one finalize succeeded and one failed; the map is
\* the one the call started with, both contexts are still initialized and
\* still found under their ids
C17_Witness ==
    /\ sweep.pc = "returned" /\ contexts = sweep.atStart
    /\ \E i \in Positions, j \in Positions :
          /\ sweep.log[i] = "Exception" /\ sweep.log[j] = "ok"
          /\ obj[sweep.snapshot[i]].initialized /\ obj[sweep.snapshot[j]].initialized
          /\ get(contexts, CtxId(sweep.snapshot[i])) = sweep.snapshot[i]
          /\ get(contexts, CtxId(sweep.snapshot[j])) = sweep.snapshot[j]

\* C20: shutdown_all() sweeps the contexts the dict held when the call
\* started, whatever register() does to the dict while a finalize is
\* awaited: finalize is invoked on contexts of that snapshot only, a context
\* replaced before the loop reached it is still the one finalized, and the
\* call ends as it would have without the register(): it returns with every
\* position of the snapshot visited, or raises the BaseException of a
\* finalize call.
C20_SweepsSnapshot ==
    /\ sweep.snapshot = list(sweep.atStart)
    /\ \A c \in Ctxs :
          sweep.calls[c] > 0 => \E i \in Positions : sweep.atStart[i].ctx = c
    /\ \A i \in Positions :
          (sweep.log[i] # "pending") =>
              sweep.calls[sweep.snapshot[i]] = IF sweep.flag[i] THEN 1 ELSE 0
    /\ sweep.pc = "returned" =>
          \A i \in Positions : sweep.log[i] \in {"ok", "Exception", "skipped"}
    /\ sweep.pc = "raised" => sweep.log[sweep.idx] = "BaseException"

\* a call returned during which register() replaced a context the loop had
\* not reached: the replaced context was finalized, its replacement was not
C20_Witness ==
    /\ sweep.pc = "returned" /\ contexts # sweep.atStart
    /\ \E i \in Positions :
          /\ sweep.replaced[i] /\ sweep.snapshot[i] \notin sweep.stale
          /\ sweep.log[i] = "ok" /\ sweep.calls[sweep.snapshot[i]] = 1
          /\ sweep.calls[get(contexts, CtxId(sweep.snapshot[i]))] = 0

\* ------------------------------------------- load_workspace_configs claims

Loaded == parse.pc = "returned"
ResultIds == [k \in 1..Len(parse.result) |-> parse.result[k].id]

\* the pieces of the aggregate value, and the ids among them
Pieces == IF parse.WORKSPACES = None THEN <<>> ELSE Split(parse.WORKSPACES[1])
PieceIds == {Strip(Pieces[i]) : i \in 1..Len(Pieces)} \ {<<>>}
FirstPiece(id) == CHOOSE i \in 1..Len(Pieces) :
                      /\ Strip(Pieces[i]) = id
                      /\ \A j \in 1..(i - 1) : Strip(Pieces[j]) # id

\* a value is given when it is set and not empty
Given(v) == v # None /\ v[1] # <<>>

\* the aggregate value holds nothing but commas and whitespace
OnlySeparators(v) == v # None /\ \A i \in 1..Len(v[1]) : v[1][i] \in {",", " "}

Trimmed(id) == id # <<>> /\ id[1] # " " /\ id[Len(id)] # " "

\* the pieces are what lies between the commas, and stripping a piece takes
\* off the blanks at its ends and nothing else
RECURSIVE Joined(_)
Joined(pieces) ==
    IF Len(pieces) = 1 THEN pieces[1]
    ELSE pieces[1] \o <<",">> \o Joined(Tail(pieces))

PiecesAreSplit ==
    /\ Joined(Pieces) = parse.WORKSPACES[1]
    /\ \A i \in 1..Len(Pieces) :
          /\ \A k \in 1..Len(Pieces[i]) : Pieces[i][k] # ","
          /\ LET t == Strip(Pieces[i]) IN
             /\ t = <<>> \/ Trimmed(t)
             /\ \E m \in 0..Len(Pieces[i]) :
                   /\ SubSeq(Pieces[i], m + 1, m + Len(t)) = t
                   /\ \A k \in (1..m) \cup ((m + Len(t) + 1)..Len(Pieces[i])) :
                         Pieces[i][k] = " "

\* C12: for an aggregate value with at least one non-blank piece the result
\* holds one config per distinct trimmed non-empty piece, in the order of
\* the first occurrences; "a, b,,a , c" gives a, b, c.
C12_AggregateParse ==
    (Loaded /\ PieceIds # {}) =>
        /\ PiecesAreSplit
        /\ {ResultIds[k] : k \in 1..Len(ResultIds)} = PieceIds
        /\ Len(ResultIds) = Cardinality(PieceIds)
        /\ \A k \in 1..Len(ResultIds), l \in 1..Len(ResultIds) :
              k < l => FirstPiece(ResultIds[k]) < FirstPiece(ResultIds[l])
        /\ \A k \in 1..Len(ResultIds) :
              parse.result[k] = WorkspaceConfig(ResultIds[k])
        /\ parse.WORKSPACES = Some(Example) =>
              ResultIds = << <<"a">>, <<"b">>, <<"c">> >>

\* "a, b,,a , c" was loaded: a blank piece, padded pieces and a repeated id
C12_Witness ==
    /\ Loaded /\ parse.WORKSPACES = Some(Example)
    /\ Len(Pieces) = 5 /\ Len(parse.result) = 3

\* C13: on every combination of inputs the call returns at least one
\* config, every id is a non-empty trimmed string, and no id occurs twice.
C13_NonEmptyUnique ==
    Loaded =>
        /\ Len(parse.result) >= 1
        /\ \A k \in 1..Len(ResultIds) : Trimmed(ResultIds[k])
        /\ \A k \in 1..Len(ResultIds), l \in 1..Len(ResultIds) :
              ResultIds[k] = ResultIds[l] => k = l

\* every source is present and holds nothing usable: the aggregate value is
\* separators only, the argument and WORKSPACE are blank
C13_Witness ==
    /\ Loaded /\ OnlySeparators(parse.WORKSPACES) /\ Len(parse.WORKSPACES[1]) >= 2
    /\ parse.arg = Some(<<" ">>) /\ parse.WORKSPACE = Some(<<" ">>)
    /\ ResultIds = <<Default>>

\* the id of the single-workspace sources: the argument if given, else
\* WORKSPACE if given, else "default"; trimmed; "default" if that is empty
ChosenId ==
    LET chosen == IF Given(parse.arg) THEN parse.arg[1]
                  ELSE IF Given(parse.WORKSPACE) THEN parse.WORKSPACE[1]
                  ELSE Default
    IN IF Strip(chosen) = <<>> THEN Default ELSE Strip(chosen)

\* C14: when the aggregate source yields no ids the result is exactly one
\* config, whose id is ChosenId; with no source given at all it is "default".
C14_Fallback ==
    (Loaded /\ PieceIds = {}) =>
        /\ parse.result = <<WorkspaceConfig(ChosenId)>>
        /\ (~Given(parse.arg) /\ ~Given(parse.WORKSPACE)) => ResultIds = <<Default>>

\* no aggregate value, both single-workspace sources given: the padded
\* argument wins over WORKSPACE and is trimmed
C14_Witness ==
    /\ Loaded /\ parse.WORKSPACES = None
    /\ parse.arg = Some(<<" ", "b", " ">>) /\ parse.WORKSPACE = Some(<<"a">>)
    /\ ResultIds = << <<"b">> >>

\* C15: if the aggregate source yields an id, the result holds only ids of
\* the aggregate source and is the same whatever the argument and WORKSPACE
\* are; if it is present but holds only commas and whitespace, the result
\* is the one obtained without the aggregate source.
C15_AggregatePrecedence ==
    Loaded =>
        /\ PieceIds # {} =>
              /\ \A k \in 1..Len(ResultIds) : ResultIds[k] \in PieceIds
              /\ \A a \in FallbackInputs, e \in FallbackInputs :
                    load_workspace_configs(parse.WORKSPACES, a, e) = parse.result
        /\ OnlySeparators(parse.WORKSPACES) =>
              parse.result = load_workspace_configs(None, parse.arg, parse.WORKSPACE)

\* an aggregate value with one id was loaded although the argument and
\* WORKSPACE name other workspaces
C15_Witness ==
    /\ Loaded /\ PieceIds = {<<"a", "b">>}
    /\ parse.arg = Some(<<" ", "b", " ">>) /\ parse.WORKSPACE = Some(<<"a">>)
    /\ ResultIds = << <<"a", "b">> >>

====
